---- MODULE Spec2Model ----
(***************************************************************************)
(* Replay engine of the heath payments toy bank: a ledger of deposit,     *)
(* withdrawal, dispute, resolve and chargeback records is replayed, in     *)
(* file order, against per-client accounts.                                *)
(*                                                                         *)
(* Money is a rust_decimal::Decimal.  Here a decimal is an integer number  *)
(* of 1e-5 units, so that round_dp(4) is a real rounding (to a multiple of *)
(* ten units, midpoint to even) and amounts of the documented precision    *)
(* ("up to four places past the decimal") are the multiples of ten.        *)
(*                                                                         *)
(* Spec, SpecClient, SpecDeep, SpecPositive and SpecLocked follow the      *)
(* handlers row by row over every ledger of a given length.  SpecFile      *)
(* follows one run over a whole ledger file: the csv readers, the file     *)
(* offset they share, the                                                  *)
(* rows that do not parse and the snapshot written at the end; SpecAgain   *)
(* lets the caller ask for the snapshot a second time.  SpecConcurrent     *)
(* runs two handlers side by side on one account, one locked accessor call *)
(* at a time.                                                              *)
(***************************************************************************)
EXTENDS Integers, Sequences, FiniteSets

\* Longest ledger prefix the replay is followed over.
MaxLedger == 3
\* Lines a csv::Reader buffers at a time when the file does not fit its
\* buffer (the buffer is 8 KiB; a line stands for an equal share of it).
BufferLines == 2

\* Client ids, transaction ids and amounts the ledger rows are drawn from.
\* Amounts are signed: the csv schema parses a negative decimal.
Clients == {1, 2}
TxIds == {1, 2}
Amounts == {-10, 10}
\* The amounts of a ledger that carries no negative amount.
PositiveAmounts == {10}

VARIABLES
    ledger,     \* the rows the forward pass has dispatched so far, in order
    accounts,   \* Bank.accounts: client id -> Account
    history,    \* history[i]: Bank.accounts after the i-th row was dispatched
    pc,         \* "replay", "panicked" once the thread has panicked, or
                \* "done" once the snapshot is written
    file,       \* Ledger.csv_file: the rows below the header line (SpecFile)
    offset,     \* the offset of the open file, in lines: File::try_clone
                \* gives every reader the same one (SpecFile)
    reader,     \* the csv::Reader of the forward pass (SpecFile)
    search,     \* what the last call of Bank::transaction returned (SpecFile)
    output,     \* the snapshots returned so far: {} until the first is
                \* written, then {rows}
    handlers,   \* the handlers that run side by side on one account, each
                \* with the place it has reached in execute (SpecConcurrent)
    calls       \* the calls of ordered_accounts_balance_buffer begun so far

vars == <<ledger, accounts, history, pc, file, offset, reader, search, output, handlers, calls>>

----------------------------------------------------------------------------
\* rust_decimal round_dp(4): banker's rounding to four fractional digits.
Round4(x) ==
    LET q == x \div 10
        r == x % 10
    IN  IF r < 5 THEN q * 10
        ELSE IF r > 5 THEN (q + 1) * 10
        ELSE IF q % 2 = 0 THEN q * 10 ELSE (q + 1) * 10

\* HashMap helpers: a map is a function on the set of its keys.
EmptyMap == [k \in {} |-> 0]
MapInsert(m, k, v) == [x \in (DOMAIN m) \cup {k} |-> IF x = k THEN v ELSE m[x]]
MapRemove(m, k) == [x \in (DOMAIN m) \ {k} |-> m[x]]

\* DisputeSate
Undisputed == <<"Undisputed">>
Disputed(amount) == <<"Disputed", amount>>
Chargeback == <<"Chargeback">>

\* TransactionLog rows; amount is the Option returned by TransactionLog::amount.
DepositLog(c, t, a) == [kind |-> "deposit", client_id |-> c, tx_id |-> t, amount |-> {a}]
WithdrawalLog(c, t, a) == [kind |-> "withdrawal", client_id |-> c, tx_id |-> t, amount |-> {a}]
DisputeLog(c, t) == [kind |-> "dispute", client_id |-> c, tx_id |-> t, amount |-> {}]
ResolveLog(c, t) == [kind |-> "resolve", client_id |-> c, tx_id |-> t, amount |-> {}]
ChargebackLog(c, t) == [kind |-> "chargeback", client_id |-> c, tx_id |-> t, amount |-> {}]

----------------------------------------------------------------------------
\* Account

AccountNew(account_id) ==
    [client_id |-> account_id,
     available_funds |-> 0,
     held_funds |-> EmptyMap,
     completed_disputes |-> EmptyMap,
     held_funds_cache |-> 0,
     locked |-> FALSE]

available_funds(acc) == Round4(acc.available_funds)
held_funds(acc) == Round4(acc.held_funds_cache)
total_funds(acc) == held_funds(acc) + available_funds(acc)
locked(acc) == acc.locked

find_dispute(acc, transaction_id) ==
    IF transaction_id \in DOMAIN acc.held_funds
    THEN Disputed(acc.held_funds[transaction_id])
    ELSE IF transaction_id \in DOMAIN acc.completed_disputes
         THEN acc.completed_disputes[transaction_id]
         ELSE Undisputed

\* BankAccount::set_available_funds rounds, then Account::set_available_funds rounds.
set_available_funds(acc, amount) ==
    [acc EXCEPT !.available_funds = Round4(Round4(amount))]

\* add_held_funds that forgets the cached total.
add_held_funds_uncached(acc, amount, disputer_id) ==
    [acc EXCEPT !.held_funds = MapInsert(@, disputer_id, Round4(amount))]

add_held_funds(acc, amount, disputer_id) ==
    LET rounded == Round4(amount)
    IN  [acc EXCEPT !.held_funds = MapInsert(@, disputer_id, rounded),
                    !.held_funds_cache = @ + rounded]

remove_held_funds(acc, disputer_id) ==
    IF disputer_id \in DOMAIN acc.held_funds
    THEN [acc EXCEPT !.held_funds = MapRemove(@, disputer_id),
                     !.held_funds_cache = @ - Round4(acc.held_funds[disputer_id])]
    ELSE acc

set_locked(acc, b) == [acc EXCEPT !.locked = b]

\* complete_dispute that keeps every completed dispute as final.
complete_dispute_final(acc, disputer_id, state) ==
    [acc EXCEPT !.completed_disputes = MapInsert(@, disputer_id, Chargeback)]

\* complete_dispute that retains no completed dispute at all.
complete_dispute_forgets(acc, disputer_id, state) == acc

complete_dispute(acc, disputer_id, state) ==
    IF state = Chargeback
    THEN [acc EXCEPT !.completed_disputes = MapInsert(@, disputer_id, state)]
    ELSE acc

----------------------------------------------------------------------------
\* Bank

\* Bank::account that creates no account.
account_no_insert(table, account_id) == table

\* Bank::account: the table with the account of account_id created if absent.
account(table, account_id) ==
    IF account_id \in DOMAIN table
    THEN table
    ELSE MapInsert(table, account_id, AccountNew(account_id))

\* Bank::transaction that matches the transaction id alone, whoever the client.
transaction_any_client(rows, max_ledger_search, account_id, transaction_id) ==
    LET taken == 1 .. (IF max_ledger_search < Len(rows) THEN max_ledger_search ELSE Len(rows))
        found == {i \in taken : rows[i].tx_id = transaction_id}
    IN  IF found = {} THEN {}
        ELSE {rows[CHOOSE i \in found : \A j \in found : i <= j]}

\* Bank::transaction without take(max_ledger_search): it searches every row.
transaction_untaken(rows, max_ledger_search, account_id, transaction_id) ==
    LET found == {i \in 1 .. Len(rows) : /\ rows[i].tx_id = transaction_id
                                          /\ account_id = rows[i].client_id}
    IN  IF found = {} THEN {}
        ELSE {rows[CHOOSE i \in found : \A j \in found : i <= j]}

\* Bank::transaction that returns the last matching row instead of the first.
transaction_last(rows, max_ledger_search, account_id, transaction_id) ==
    LET taken == 1 .. (IF max_ledger_search < Len(rows) THEN max_ledger_search ELSE Len(rows))
        found == {i \in taken : /\ rows[i].tx_id = transaction_id
                                /\ account_id = rows[i].client_id}
    IN  IF found = {} THEN {}
        ELSE {rows[CHOOSE i \in found : \A j \in found : i >= j]}

\* Bank::transaction that passes over the rows without an amount.
transaction_with_amount(rows, max_ledger_search, account_id, transaction_id) ==
    LET taken == 1 .. (IF max_ledger_search < Len(rows) THEN max_ledger_search ELSE Len(rows))
        found == {i \in taken : /\ rows[i].tx_id = transaction_id
                                /\ account_id = rows[i].client_id
                                /\ rows[i].amount # {}}
    IN  IF found = {} THEN {}
        ELSE {rows[CHOOSE i \in found : \A j \in found : i <= j]}

\* Bank::transaction: the first of the first max_ledger_search rows of the
\* ledger with this transaction id and client id; {} when there is none.
transaction(rows, max_ledger_search, account_id, transaction_id) ==
    LET taken == 1 .. (IF max_ledger_search < Len(rows) THEN max_ledger_search ELSE Len(rows))
        found == {i \in taken : /\ rows[i].tx_id = transaction_id
                                /\ account_id = rows[i].client_id}
    IN  IF found = {} THEN {}
        ELSE {rows[CHOOSE i \in found : \A j \in found : i <= j]}

----------------------------------------------------------------------------
\* Transaction handlers: the account after execute().

\* Deposit::execute without the locked() check.
Deposit_execute_unlocked(acc, amount) ==
    set_available_funds(acc, available_funds(acc) + amount)

Deposit_execute(acc, amount) ==
    IF ~locked(acc)
    THEN set_available_funds(acc, available_funds(acc) + amount)
    ELSE acc

\* Withdrawal::execute without the locked() check.
Withdrawal_execute_unlocked(acc, amount) ==
    IF available_funds(acc) >= amount
    THEN set_available_funds(acc, available_funds(acc) - amount)
    ELSE acc

\* Withdrawal::execute that lets held funds cover the amount.
Withdrawal_execute_total(acc, amount) ==
    IF locked(acc) THEN acc
    ELSE IF total_funds(acc) >= amount
         THEN set_available_funds(acc, available_funds(acc) - amount)
         ELSE acc

Withdrawal_execute(acc, amount) ==
    IF locked(acc) THEN acc
    ELSE IF available_funds(acc) >= amount
         THEN set_available_funds(acc, available_funds(acc) - amount)
         ELSE acc

\* Dispute::execute that refuses only an id that is Disputed right now.
Dispute_execute_reopens(acc, disputed_tx) ==
    IF disputed_tx = {} THEN acc
    ELSE LET tx == CHOOSE r \in disputed_tx : TRUE
             state == find_dispute(acc, tx.tx_id)
         IN  IF state[1] # "Disputed" /\ tx.amount # {}
             THEN LET amount == CHOOSE a \in tx.amount : TRUE
                      available == available_funds(acc)
                  IN  IF available >= amount
                      THEN add_held_funds(set_available_funds(acc, available - amount),
                                          amount, tx.tx_id)
                      ELSE acc
             ELSE acc

\* Dispute::execute that refuses only an id that was charged back, so that
\* an id under dispute can be disputed once more.
Dispute_execute_twice(acc, disputed_tx) ==
    IF disputed_tx = {} THEN acc
    ELSE LET tx == CHOOSE r \in disputed_tx : TRUE
             state == find_dispute(acc, tx.tx_id)
         IN  IF state # Chargeback /\ tx.amount # {}
             THEN LET amount == CHOOSE a \in tx.amount : TRUE
                      available == available_funds(acc)
                  IN  IF available >= amount
                      THEN add_held_funds(set_available_funds(acc, available - amount),
                                          amount, tx.tx_id)
                      ELSE acc
             ELSE acc

\* Dispute::execute that ignores a dispute on a locked account, as the
\* deposit and withdrawal handlers do.
Dispute_execute_locked_out(acc, disputed_tx) ==
    IF disputed_tx = {} \/ locked(acc) THEN acc
    ELSE LET tx == CHOOSE r \in disputed_tx : TRUE
             state == find_dispute(acc, tx.tx_id)
         IN  IF state = Undisputed /\ tx.amount # {}
             THEN LET amount == CHOOSE a \in tx.amount : TRUE
                      available == available_funds(acc)
                  IN  IF available >= amount
                      THEN add_held_funds(set_available_funds(acc, available - amount),
                                          amount, tx.tx_id)
                      ELSE acc
             ELSE acc

\* Dispute::execute that holds the amount whether available covers it or not.
Dispute_execute_overdraws(acc, disputed_tx) ==
    IF disputed_tx = {} THEN acc
    ELSE LET tx == CHOOSE r \in disputed_tx : TRUE
             state == find_dispute(acc, tx.tx_id)
         IN  IF state = Undisputed /\ tx.amount # {}
             THEN LET amount == CHOOSE a \in tx.amount : TRUE
                      available == available_funds(acc)
                  IN  add_held_funds(set_available_funds(acc, available - amount),
                                     amount, tx.tx_id)
             ELSE acc

Dispute_execute(acc, disputed_tx) ==
    IF disputed_tx = {} THEN acc
    ELSE LET tx == CHOOSE r \in disputed_tx : TRUE
             state == find_dispute(acc, tx.tx_id)
         IN  IF state = Undisputed /\ tx.amount # {}
             THEN LET amount == CHOOSE a \in tx.amount : TRUE
                      available == available_funds(acc)
                  IN  IF available >= amount
                      THEN add_held_funds(set_available_funds(acc, available - amount),
                                          amount, tx.tx_id)
                      ELSE acc
             ELSE acc

\* The assert! of Resolve::execute and ChargeBack::execute fails.
assert_fails(acc, disputed_tx) ==
    /\ disputed_tx # {}
    /\ LET tx == CHOOSE r \in disputed_tx : TRUE
           state == find_dispute(acc, tx.tx_id)
       IN  /\ state[1] = "Disputed"
           /\ ~(state[2] <= held_funds(acc))

Resolve_execute(acc, disputed_tx) ==
    IF disputed_tx = {} THEN acc
    ELSE LET tx == CHOOSE r \in disputed_tx : TRUE
             state == find_dispute(acc, tx.tx_id)
         IN  IF state[1] = "Disputed"
             THEN LET amount == state[2]
                      new_available == available_funds(acc) + amount
                  IN  complete_dispute(
                          set_available_funds(remove_held_funds(acc, tx.tx_id), new_available),
                          tx.tx_id, Undisputed)
             ELSE acc

\* ChargeBack::execute that leaves the account unlocked.
ChargeBack_execute_no_lock(acc, disputed_tx) ==
    IF disputed_tx = {} THEN acc
    ELSE LET tx == CHOOSE r \in disputed_tx : TRUE
             state == find_dispute(acc, tx.tx_id)
         IN  IF state[1] = "Disputed"
             THEN complete_dispute(remove_held_funds(acc, tx.tx_id), tx.tx_id, Chargeback)
             ELSE acc

\* ChargeBack::execute that locks the account whatever the state it finds.
ChargeBack_execute_locks_always(acc, disputed_tx) ==
    IF disputed_tx = {} THEN acc
    ELSE LET tx == CHOOSE r \in disputed_tx : TRUE
             state == find_dispute(acc, tx.tx_id)
         IN  IF state[1] = "Disputed"
             THEN set_locked(
                      complete_dispute(remove_held_funds(acc, tx.tx_id), tx.tx_id, Chargeback),
                      TRUE)
             ELSE set_locked(acc, TRUE)

\* ChargeBack::execute that completes the dispute without remove_held_funds.
ChargeBack_execute_keeps_held(acc, disputed_tx) ==
    IF disputed_tx = {} THEN acc
    ELSE LET tx == CHOOSE r \in disputed_tx : TRUE
             state == find_dispute(acc, tx.tx_id)
         IN  IF state[1] = "Disputed"
             THEN set_locked(complete_dispute(acc, tx.tx_id, Chargeback), TRUE)
             ELSE acc

ChargeBack_execute(acc, disputed_tx) ==
    IF disputed_tx = {} THEN acc
    ELSE LET tx == CHOOSE r \in disputed_tx : TRUE
             state == find_dispute(acc, tx.tx_id)
         IN  IF state[1] = "Disputed"
             THEN set_locked(
                      complete_dispute(remove_held_funds(acc, tx.tx_id), tx.tx_id, Chargeback),
                      TRUE)
             ELSE acc

----------------------------------------------------------------------------
\* Replay: Bank::ordered_accounts_balance_buffer dispatches row `index` of the
\* ledger through BankTransaction::execute.

\* A csv::Reader: the numbers of the lines it has buffered and not parsed
\* yet, whether it has read the headers, the lines its buffer takes, and the
\* number of the line it yielded last.
NoReader == [buffer |-> << >>, headers |-> FALSE, capacity |-> 0, line |-> 0]

Init ==
    /\ ledger = << >>
    /\ accounts = EmptyMap
    /\ history = << >>
    /\ pc = "replay"
    /\ file = << >>
    /\ offset = 0
    /\ reader = NoReader
    /\ search = {}
    /\ output = {}
    /\ handlers = << >>
    /\ calls = 1

\* The forward pass reads one more row (of a ledger of at most max rows).
Reads(row, max) ==
    /\ pc = "replay"
    /\ Len(ledger) < max
    /\ ledger' = Append(ledger, row)
    /\ UNCHANGED <<file, offset, reader, search, output, handlers, calls>>

\* The handler ran to its end and left the account `acc` for the row's client.
Stores(row, acc) ==
    /\ accounts' = [account(accounts, row.client_id) EXCEPT ![row.client_id] = acc]
    /\ history' = Append(history, accounts')
    /\ pc' = "replay"

\* The handler's assert! failed: the thread panics before any write.
Panics(row) ==
    /\ accounts' = account(accounts, row.client_id)
    /\ history' = Append(history, accounts')
    /\ pc' = "panicked"

\* BankTransaction::execute for each kind of row; the row's client is one of
\* `clients` and the ledger has at most `max` rows.
ExecuteDeposit(clients, amounts, max) ==
    \E c \in clients, t \in TxIds, a \in amounts :
        LET row == DepositLog(c, t, a)
            acc == account(accounts, c)[c]
        IN  /\ Reads(row, max)
            /\ Stores(row, Deposit_execute(acc, a))

ExecuteWithdrawal(clients, amounts, max) ==
    \E c \in clients, t \in TxIds, a \in amounts :
        LET row == WithdrawalLog(c, t, a)
            acc == account(accounts, c)[c]
        IN  /\ Reads(row, max)
            /\ Stores(row, Withdrawal_execute(acc, a))

ExecuteDispute(clients, max) ==
    \E c \in clients, t \in TxIds :
        LET row == DisputeLog(c, t)
            acc == account(accounts, c)[c]
            dispute == transaction(ledger', Len(ledger), c, t)
        IN  /\ Reads(row, max)
            /\ Stores(row, Dispute_execute(acc, dispute))

ExecuteResolve(clients, max) ==
    \E c \in clients, t \in TxIds :
        LET row == ResolveLog(c, t)
            acc == account(accounts, c)[c]
            dispute == transaction(ledger', Len(ledger), c, t)
        IN  /\ Reads(row, max)
            /\ IF assert_fails(acc, dispute)
               THEN Panics(row)
               ELSE Stores(row, Resolve_execute(acc, dispute))

ExecuteChargeback(clients, max) ==
    \E c \in clients, t \in TxIds :
        LET row == ChargebackLog(c, t)
            acc == account(accounts, c)[c]
            dispute == transaction(ledger', Len(ledger), c, t)
        IN  /\ Reads(row, max)
            /\ IF assert_fails(acc, dispute)
               THEN Panics(row)
               ELSE Stores(row, ChargeBack_execute(acc, dispute))

Replay(clients, amounts, max) ==
    \/ ExecuteDeposit(clients, amounts, max)
    \/ ExecuteWithdrawal(clients, amounts, max)
    \/ ExecuteDispute(clients, max)
    \/ ExecuteResolve(clients, max)
    \/ ExecuteChargeback(clients, max)

\* Ledgers of every client, up to MaxLedger rows.
Next == Replay(Clients, Amounts, MaxLedger)
Spec == Init /\ [][Next]_vars

\* Ledgers of a single client, followed one row further.
NextClient == Replay({1}, Amounts, MaxLedger + 1)
SpecClient == Init /\ [][NextClient]_vars

\* Ledgers of a single client, followed two rows further: the shortest ledger
\* on which an assert! fails has five rows.
NextDeep == Replay({1}, Amounts, MaxLedger + 2)
SpecDeep == Init /\ [][NextDeep]_vars

\* Ledgers of a single client without negative amounts, as long as those of
\* SpecDeep: a dispute on a locked account needs five rows.
NextPositive == Replay({1}, PositiveAmounts, MaxLedger + 2)
SpecPositive == Init /\ [][NextPositive]_vars

\* Ledgers of a single client without negative amounts, one row longer: a
\* second chargeback on an account that is already locked needs six rows.
NextLocked == Replay({1}, PositiveAmounts, MaxLedger + 3)
SpecLocked == Init /\ [][NextLocked]_vars

----------------------------------------------------------------------------
\* The run over a whole ledger file: Bank::ordered_accounts_balance_buffer.
\* The file is a header line (line 0) and the rows below it (line k is
\* file[k]).  Ledger::reader clones the File and rewinds it; the clone
\* shares the offset of the one open file, and each csv::Reader reads the
\* file a buffer at a time from wherever that offset is.

\* The rows of a ledger file: those of the replay for one transaction id
\* and one amount, a row the csv reader rejects, and a deposit and a
\* withdrawal without an amount.
FileRows ==
    {DepositLog(c, 1, 10) : c \in Clients}
    \cup {WithdrawalLog(c, 1, 10) : c \in Clients}
    \cup {DisputeLog(c, 1) : c \in Clients}
    \cup {ResolveLog(c, 1) : c \in Clients}
    \cup {ChargebackLog(c, 1) : c \in Clients}
    \cup {[kind |-> "malformed", client_id |-> 0, tx_id |-> 0, amount |-> {}],
          [kind |-> "deposit", client_id |-> 1, tx_id |-> 1, amount |-> {}],
          [kind |-> "withdrawal", client_id |-> 1, tx_id |-> 1, amount |-> {}]}
Files == UNION {[1 .. n -> FileRows] : n \in 0 .. MaxLedger}
\* Rows dispatched before the run is left alone (a disturbed forward pass
\* can dispatch rows again and again).
MaxDispatch == MaxLedger + 3

Min(a, b) == IF a < b THEN a ELSE b
Lines(rows) == Len(rows) + 1

\* LedgerIter::next accepts the row: the csv reader deserializes it and
\* TransactionLog::from finds the amount of a deposit or withdrawal.
Parses(row) ==
    /\ row.kind # "malformed"
    /\ row.kind \in {"deposit", "withdrawal"} => row.amount # {}

\* A read of the file into an empty buffer: the numbers of the lines from
\* the offset `at` on, as many as the buffer takes.
read(rows, at, capacity) ==
    [i \in 1 .. Min(capacity, Lines(rows) - at) |-> at + i - 1]

\* The reader with its buffer refilled when empty, and the offset after.
fill_buf(rd, at) ==
    IF rd.buffer # << >> THEN [reader |-> rd, offset |-> at]
    ELSE LET chunk == read(file, at, rd.capacity)
         IN  [reader |-> [rd EXCEPT !.buffer = chunk], offset |-> at + Len(chunk)]

\* csv::Reader::deserialize().next() of the forward pass: the first record
\* read is taken as the headers; record is {} at the end of the file and
\* {k} when line k is yielded.
deserialize(rd, at) ==
    LET filled == fill_buf(rd, at)
        past == IF filled.reader.headers \/ filled.reader.buffer = << >>
                THEN filled
                ELSE fill_buf([filled.reader EXCEPT !.buffer = Tail(@), !.headers = TRUE],
                              filled.offset)
    IN  IF past.reader.buffer = << >>
        THEN [reader |-> past.reader, offset |-> past.offset, record |-> {}]
        ELSE [reader |-> [past.reader EXCEPT !.buffer = Tail(@),
                                              !.line = Head(past.reader.buffer)],
              offset |-> past.offset,
              record |-> {Head(past.reader.buffer)}]

\* Bank::transaction on the file: a reader of its own on the rewound file,
\* which parses row after row until one matches, max_ledger_search rows are
\* taken or the file ends.  It panics on a row that does not parse, and it
\* leaves the shared offset behind the last buffer it read.
ledger_search(rows, max_ledger_search, account_id, transaction_id, capacity) ==
    LET limit == Min(max_ledger_search, Len(rows))
        stops == {r \in 1 .. limit : \/ ~Parses(rows[r])
                                      \/ /\ rows[r].tx_id = transaction_id
                                         /\ account_id = rows[r].client_id}
        last == IF stops = {} THEN limit ELSE CHOOSE r \in stops : \A q \in stops : r <= q
        panics == stops # {} /\ ~Parses(rows[last])
    IN  [panics |-> panics,
         found |-> IF panics THEN {}
                   ELSE transaction(rows, max_ledger_search, account_id, transaction_id),
         offset |-> IF max_ledger_search = 0 THEN 0
                    ELSE IF stops = {} /\ max_ledger_search > Len(rows) THEN Lines(rows)
                    ELSE Min(((last \div capacity) + 1) * capacity, Lines(rows))]

\* AccountLog::from(&Account): a row of the snapshot.
to_csv(acc) ==
    [client |-> acc.client_id,
     available |-> available_funds(acc),
     held |-> Round4(acc.held_funds_cache),
     total |-> total_funds(acc),
     locked |-> acc.locked]

\* sorted_by client id.
RECURSIVE sorted_by(_)
sorted_by(logs) ==
    IF logs = {} THEN << >>
    ELSE LET first == CHOOSE a \in logs : \A b \in logs : a.client <= b.client
         IN  <<first>> \o sorted_by(logs \ {first})

\* The snapshot that leaves out the accounts without funds.
ordered_accounts_balance_funded(table) ==
    sorted_by({to_csv(table[c]) : c \in {d \in DOMAIN table : total_funds(table[d]) # 0}})

\* The rows of the snapshot of the account table.
ordered_accounts_balance(table) ==
    sorted_by({to_csv(table[c]) : c \in DOMAIN table})

InitFile ==
    /\ file \in Files
    /\ offset = 0
    /\ reader \in {[NoReader EXCEPT !.capacity = n] : n \in {BufferLines, MaxLedger + 1}}
    /\ ledger = << >>
    /\ accounts = EmptyMap
    /\ history = << >>
    /\ pc = "replay"
    /\ search = {}
    /\ output = {}
    /\ handlers = << >>
    /\ calls = 1

\* The forward pass yields a row that parses and BankTransaction::execute
\* runs its handler; a dispute, resolve or chargeback first looks its
\* transaction up among the first `index` rows of the file.
ReplayRecord ==
    /\ pc = "replay"
    /\ Len(ledger) < MaxDispatch
    /\ LET next == deserialize(reader, offset)
       IN  /\ next.record # {}
           /\ LET k == CHOOSE l \in next.record : TRUE
              IN  /\ k > 0
                  /\ Parses(file[k])
                  /\ LET row == file[k]
                         acc == account(accounts, row.client_id)[row.client_id]
                         index == Len(ledger)
                         looked == ledger_search(file, index, row.client_id, row.tx_id,
                                                 reader.capacity)
                     IN  /\ ledger' = Append(ledger, row)
                         /\ reader' = next.reader
                         /\ IF row.kind \in {"deposit", "withdrawal"}
                            THEN /\ offset' = next.offset
                                 /\ search' = search
                                 /\ LET amount == CHOOSE a \in row.amount : TRUE
                                    IN  IF row.kind = "deposit"
                                        THEN Stores(row, Deposit_execute(acc, amount))
                                        ELSE Stores(row, Withdrawal_execute(acc, amount))
                            ELSE /\ offset' = looked.offset
                                 /\ search' = looked.found
                                 /\ IF looked.panics THEN Panics(row)
                                    ELSE IF row.kind = "dispute"
                                    THEN Stores(row, Dispute_execute(acc, looked.found))
                                    ELSE IF assert_fails(acc, looked.found) THEN Panics(row)
                                    ELSE IF row.kind = "resolve"
                                    THEN Stores(row, Resolve_execute(acc, looked.found))
                                    ELSE Stores(row, ChargeBack_execute(acc, looked.found))
    /\ UNCHANGED <<file, output, handlers, calls>>

\* LedgerIter::next that drops a line that does not parse and goes on.
ParseFailure_skips ==
    /\ pc = "replay"
    /\ LET next == deserialize(reader, offset)
       IN  /\ next.record # {}
           /\ LET k == CHOOSE l \in next.record : TRUE
              IN  IF k = 0 THEN TRUE ELSE ~Parses(file[k])
           /\ reader' = next.reader
           /\ offset' = next.offset
    /\ UNCHANGED <<pc, ledger, accounts, history, file, search, output, handlers, calls>>

\* The forward pass yields a line that does not parse (a malformed row, a
\* deposit or withdrawal without amount, or the header line read again as
\* a record): LedgerIter::next panics.
ParseFailure ==
    /\ pc = "replay"
    /\ LET next == deserialize(reader, offset)
       IN  /\ next.record # {}
           /\ LET k == CHOOSE l \in next.record : TRUE
              IN  IF k = 0 THEN TRUE ELSE ~Parses(file[k])
           /\ reader' = next.reader
           /\ offset' = next.offset
    /\ pc' = "panicked"
    /\ UNCHANGED <<ledger, accounts, history, file, search, output, handlers, calls>>

\* The forward pass finds the end of the file: the accounts are written
\* out in the order of their client ids and the table is emptied.
EndOfLedger ==
    /\ pc = "replay"
    /\ LET next == deserialize(reader, offset)
       IN  /\ next.record = {}
           /\ reader' = next.reader
           /\ offset' = next.offset
    /\ output' = output \cup {ordered_accounts_balance(accounts)}
    /\ accounts' = EmptyMap
    /\ pc' = "done"
    /\ UNCHANGED <<ledger, history, file, search, handlers, calls>>

NextFile == ReplayRecord \/ ParseFailure \/ EndOfLedger
SpecFile == InitFile /\ [][NextFile]_vars

\* The caller calls ordered_accounts_balance_buffer once more on the same
\* Bank (at most MaxCalls calls are followed): mem::take empties the account
\* table and Ledger::iter builds a new reader on the rewound file.
MaxCalls == 2

\* A further call whose reader starts where the file offset was left.
CallAgain_without_rewind ==
    /\ pc = "done"
    /\ calls < MaxCalls
    /\ calls' = calls + 1
    /\ accounts' = EmptyMap
    /\ reader' = [NoReader EXCEPT !.capacity = reader.capacity]
    /\ ledger' = << >>
    /\ history' = << >>
    /\ search' = {}
    /\ pc' = "replay"
    /\ UNCHANGED <<file, offset, output, handlers>>

CallAgain ==
    /\ pc = "done"
    /\ calls < MaxCalls
    /\ calls' = calls + 1
    /\ accounts' = EmptyMap
    /\ offset' = 0
    /\ reader' = [NoReader EXCEPT !.capacity = reader.capacity]
    /\ ledger' = << >>
    /\ history' = << >>
    /\ search' = {}
    /\ pc' = "replay"
    /\ UNCHANGED <<file, output, handlers>>

NextAgain == NextFile \/ CallAgain
SpecAgain == InitFile /\ [][NextAgain]_vars

----------------------------------------------------------------------------
\* Two handlers side by side on one account.  BankAccount is an
\* Arc<Mutex<Account>> and every accessor of it is self.lock().unwrap().X():
\* the lock is taken and released inside each call, so each call below is
\* one atomic step and execute() is a sequence of such steps.

Handlers == 1 .. 2

\* The accounts the two handlers may find: client 1 after no, one or two
\* deposits, and after two deposits with the second one disputed.
StartAccounts ==
    LET one == Deposit_execute(AccountNew(1), 10)
        two == Deposit_execute(one, 10)
    IN  {AccountNew(1), one, two, Dispute_execute(two, {DepositLog(1, 2, 10)})}

\* A handler as BankTransaction::execute has built it, about to make its
\* first call: kind, the row it acts on (for a dispute the row the lookup
\* found), the call it makes next and the value of its local `available`.
HandlerStarts ==
    {[kind |-> "deposit", tx |-> DepositLog(1, 3, 10), pc |-> "locked", available |-> 0],
     [kind |-> "withdrawal", tx |-> WithdrawalLog(1, 3, 10), pc |-> "locked", available |-> 0]}
    \cup {[kind |-> "dispute", tx |-> DepositLog(1, t, 10), pc |-> "find_dispute", available |-> 0]
          : t \in TxIds}

InitConcurrent ==
    /\ ledger = << >>
    /\ accounts \in {MapInsert(EmptyMap, 1, acc) : acc \in StartAccounts}
    /\ history = <<accounts>>
    /\ pc = "replay"
    /\ file = << >>
    /\ offset = 0
    /\ reader = NoReader
    /\ search = {}
    /\ output = {}
    /\ handlers \in [Handlers -> HandlerStarts]
    /\ calls = 1

HandlerAmount(h) == CHOOSE a \in handlers[h].tx.amount : TRUE

\* self.account.locked() of Deposit::execute and Withdrawal::execute.
CallLocked(h) ==
    /\ handlers[h].pc = "locked"
    /\ handlers' = [handlers EXCEPT ![h].pc =
                        IF locked(accounts[1]) THEN "done" ELSE "available_funds"]
    /\ UNCHANGED <<ledger, accounts, history, pc, file, offset, reader, search, output, calls>>

\* self.account.find_dispute(id) of Dispute::execute.
CallFindDispute(h) ==
    /\ handlers[h].pc = "find_dispute"
    /\ handlers' = [handlers EXCEPT ![h].pc =
                        IF /\ find_dispute(accounts[1], handlers[h].tx.tx_id) = Undisputed
                           /\ handlers[h].tx.amount # {}
                        THEN "available_funds" ELSE "done"]
    /\ UNCHANGED <<ledger, accounts, history, pc, file, offset, reader, search, output, calls>>

\* let available = self.account.available_funds(), and the comparison
\* each handler makes with it.
CallAvailableFunds(h) ==
    /\ handlers[h].pc = "available_funds"
    /\ LET available == available_funds(accounts[1])
       IN  handlers' = [handlers EXCEPT
                ![h].available = available,
                ![h].pc = IF handlers[h].kind = "deposit" \/ available >= HandlerAmount(h)
                          THEN "set_available_funds" ELSE "done"]
    /\ UNCHANGED <<ledger, accounts, history, pc, file, offset, reader, search, output, calls>>

\* self.account.set_available_funds(..) with the value computed from the
\* local `available`.
CallSetAvailableFunds(h) ==
    /\ handlers[h].pc = "set_available_funds"
    /\ LET new_available == IF handlers[h].kind = "deposit"
                            THEN handlers[h].available + HandlerAmount(h)
                            ELSE handlers[h].available - HandlerAmount(h)
       IN  accounts' = [accounts EXCEPT ![1] = set_available_funds(@, new_available)]
    /\ handlers' = [handlers EXCEPT ![h].pc =
                        IF handlers[h].kind = "dispute" THEN "add_held_funds" ELSE "done"]
    /\ UNCHANGED <<ledger, history, pc, file, offset, reader, search, output, calls>>

\* self.account.add_held_funds(amount, id) of Dispute::execute.
CallAddHeldFunds(h) ==
    /\ handlers[h].pc = "add_held_funds"
    /\ accounts' = [accounts EXCEPT
            ![1] = add_held_funds(@, HandlerAmount(h), handlers[h].tx.tx_id)]
    /\ handlers' = [handlers EXCEPT ![h].pc = "done"]
    /\ UNCHANGED <<ledger, history, pc, file, offset, reader, search, output, calls>>

NextConcurrent ==
    \E h \in Handlers :
        \/ CallLocked(h)
        \/ CallFindDispute(h)
        \/ CallAvailableFunds(h)
        \/ CallSetAvailableFunds(h)
        \/ CallAddHeldFunds(h)
SpecConcurrent == InitConcurrent /\ [][NextConcurrent]_vars

----------------------------------------------------------------------------
\* The replay seen row by row: row i of the ledger, the account its handler
\* was given (created by Bank::account when absent) and the one it left.

Rows == 1 .. Len(ledger)
Row(i) == ledger[i]
TableBefore(i) == IF i = 1 THEN EmptyMap ELSE history[i - 1]
TableAfter(i) == history[i]
Before(i) == account(TableBefore(i), Row(i).client_id)[Row(i).client_id]
After(i) == TableAfter(i)[Row(i).client_id]
\* The account of client c before row i; a new one when row i creates it.
BeforeOf(i, c) == account(TableBefore(i), c)[c]
\* The result of the backward lookup made for row i.
Original(i) == transaction(ledger, i - 1, Row(i).client_id, Row(i).tx_id)
OriginalTx(i) == CHOOSE r \in Original(i) : TRUE
OriginalAmount(i) == CHOOSE a \in OriginalTx(i).amount : TRUE
\* The handler of row i returned (its assert!, if any, held).
Returned(i) == ~(pc = "panicked" /\ i = Len(ledger))
DisputeFamily == {"dispute", "resolve", "chargeback"}
\* The state of the original of row i, as the handler of row i finds it.
StateBefore(i) == find_dispute(Before(i), OriginalTx(i).tx_id)
\* Row i is a chargeback that was applied.
SuccessfulChargeback(i) ==
    /\ Row(i).kind = "chargeback"
    /\ Original(i) # {}
    /\ StateBefore(i)[1] = "Disputed"
    /\ Returned(i)

----------------------------------------------------------------------------
\* C1: after every handler call, every account has held_funds() >= 0 and
\* total_funds() = available_funds() + held_funds().
C1_FundsInvariant ==
    \A i \in Rows : \A c \in DOMAIN TableAfter(i) :
        LET acc == TableAfter(i)[c]
        IN  /\ held_funds(acc) >= 0
            /\ total_funds(acc) = available_funds(acc) + held_funds(acc)

----------------------------------------------------------------------------
\* The case of C2 at row i: a dispute whose original is found, is Undisputed,
\* carries an amount, and is covered by the available funds.
C2_Case(i) ==
    /\ Row(i).kind = "dispute"
    /\ Original(i) # {}
    /\ StateBefore(i) = Undisputed
    /\ OriginalTx(i).amount # {}
    /\ available_funds(Before(i)) >= OriginalAmount(i)

\* C2: such a dispute moves exactly the amount from available to held, keeps
\* total and locked, and leaves the original Disputed(amount).
C2_DisputeMovesFunds ==
    \A i \in Rows :
        C2_Case(i) =>
            LET amount == OriginalAmount(i)
            IN  /\ available_funds(After(i)) = available_funds(Before(i)) - amount
                /\ held_funds(After(i)) = held_funds(Before(i)) + amount
                /\ total_funds(After(i)) = total_funds(Before(i))
                /\ locked(After(i)) = locked(Before(i))
                /\ find_dispute(After(i), OriginalTx(i).tx_id) = Disputed(amount)

\* A dispute was applied to an account that already held funds for another one.
C2_Witness ==
    \E i \in Rows :
        /\ C2_Case(i)
        /\ Before(i).held_funds # EmptyMap
        /\ available_funds(After(i)) # available_funds(Before(i))

----------------------------------------------------------------------------
\* The case of C3 and C4 at row i: the original is found and is Disputed.
DisputedCase(i, kind) ==
    /\ Row(i).kind = kind
    /\ Original(i) # {}
    /\ StateBefore(i)[1] = "Disputed"

\* C3: a resolve of a Disputed(amount) original adds amount to available,
\* takes it from held, keeps total and locked, and leaves it Undisputed.
C3_ResolveReleasesFunds ==
    \A i \in Rows :
        DisputedCase(i, "resolve") =>
            LET amount == StateBefore(i)[2]
            IN  /\ Returned(i)
                /\ available_funds(After(i)) = available_funds(Before(i)) + amount
                /\ held_funds(After(i)) = held_funds(Before(i)) - amount
                /\ total_funds(After(i)) = total_funds(Before(i))
                /\ locked(After(i)) = locked(Before(i))
                /\ find_dispute(After(i), OriginalTx(i).tx_id) = Undisputed

\* C4: a chargeback of a Disputed(amount) original takes amount from held and
\* total, keeps available, locks the account and leaves it Chargeback.
C4_ChargebackWithdrawsHeld ==
    \A i \in Rows :
        DisputedCase(i, "chargeback") =>
            LET amount == StateBefore(i)[2]
            IN  /\ Returned(i)
                /\ held_funds(After(i)) = held_funds(Before(i)) - amount
                /\ total_funds(After(i)) = total_funds(Before(i)) - amount
                /\ available_funds(After(i)) = available_funds(Before(i))
                /\ locked(After(i))
                /\ find_dispute(After(i), OriginalTx(i).tx_id) = Chargeback

----------------------------------------------------------------------------
\* What the snapshot shows of an account.
Funds(acc) == <<available_funds(acc), held_funds(acc), total_funds(acc), locked(acc)>>

\* Row k is a deposit or withdrawal of a client with an earlier applied chargeback.
C5_Case(j, k) ==
    /\ j < k
    /\ SuccessfulChargeback(j)
    /\ Row(k).client_id = Row(j).client_id
    /\ Row(k).kind \in {"deposit", "withdrawal"}

\* C5: after a successful chargeback, every later deposit and withdrawal of
\* that client leaves available, held, total and locked unchanged.
C5_LockedIgnoresFunding ==
    \A j \in Rows : \A k \in Rows :
        C5_Case(j, k) => Funds(After(k)) = Funds(Before(k))

\* After a chargeback, a withdrawal the available funds would have covered.
C5_Witness ==
    \E j \in Rows : \E k \in Rows :
        /\ C5_Case(j, k)
        /\ Row(k).kind = "withdrawal"
        /\ \E a \in Row(k).amount : a # 0 /\ available_funds(Before(k)) >= a

----------------------------------------------------------------------------
\* An id of the account is in the Chargeback state.
HasChargeback(acc) == \E t \in TxIds : find_dispute(acc, t) = Chargeback

\* C6: locked is false at creation, becomes true only through a successful
\* chargeback of that client, is never reset, and is true exactly when an id
\* of the account is in the Chargeback state.
C6_LockedOnlyByChargeback ==
    \A i \in Rows : \A c \in DOMAIN TableAfter(i) :
        LET before == BeforeOf(i, c)
            after == TableAfter(i)[c]
        IN  /\ (c \notin DOMAIN TableBefore(i)) => ~locked(before)
            /\ locked(before) => locked(after)
            /\ (~locked(before) /\ locked(after)) =>
                   (SuccessfulChargeback(i) /\ Row(i).client_id = c)
            /\ locked(after) <=> HasChargeback(after)

\* A chargeback locked an account, and a later row of that client found it
\* locked and left it locked.
C6_Witness ==
    \E i \in Rows : \E k \in Rows :
        /\ i < k
        /\ SuccessfulChargeback(i)
        /\ ~locked(Before(i)) /\ locked(After(i))
        /\ Row(k).client_id = Row(i).client_id
        /\ locked(Before(k)) /\ locked(After(k))

----------------------------------------------------------------------------
\* Rows i < j < k are a dispute, a resolve and a dispute of the same original,
\* with no other dispute, resolve or chargeback of it in between; the first
\* dispute is applied and the available funds cover the amount at the second.
C7_Case(i, j, k) ==
    /\ i < j /\ j < k
    /\ Row(i).kind = "dispute" /\ Row(j).kind = "resolve" /\ Row(k).kind = "dispute"
    /\ Row(j).client_id = Row(i).client_id /\ Row(j).tx_id = Row(i).tx_id
    /\ Row(k).client_id = Row(i).client_id /\ Row(k).tx_id = Row(i).tx_id
    /\ \A m \in Rows :
           (i < m /\ m < k /\ m # j /\ Row(m).kind \in DisputeFamily) =>
               ~(Row(m).client_id = Row(i).client_id /\ Row(m).tx_id = Row(i).tx_id)
    /\ C2_Case(i)
    /\ Original(k) # {}
    /\ OriginalTx(k).amount # {}
    /\ available_funds(Before(k)) >= OriginalAmount(k)

\* C7: in Dispute, Resolve, Dispute on the same original the second dispute
\* succeeds: held funds grow again by the amount and the id is Disputed again.
C7_RedisputeAfterResolve ==
    \A i \in Rows : \A j \in Rows : \A k \in Rows :
        C7_Case(i, j, k) =>
            /\ find_dispute(After(j), Row(i).tx_id) = Undisputed
            /\ After(j).completed_disputes = Before(j).completed_disputes
            /\ held_funds(After(k)) = held_funds(Before(k)) + OriginalAmount(k)
            /\ find_dispute(After(k), Row(i).tx_id) = Disputed(OriginalAmount(k))

C7_Witness ==
    \E i \in Rows : \E j \in Rows : \E k \in Rows :
        /\ C7_Case(i, j, k)
        /\ OriginalAmount(k) > 0
        /\ held_funds(After(k)) > held_funds(Before(k))

----------------------------------------------------------------------------
\* C8: an id in the Chargeback state stays there, and a later dispute, resolve
\* or chargeback of that id leaves the whole account unchanged.
C8_ChargebackIsFinal ==
    \A i \in Rows : \A c \in DOMAIN TableBefore(i) : \A t \in TxIds :
        find_dispute(TableBefore(i)[c], t) = Chargeback =>
            /\ find_dispute(TableAfter(i)[c], t) = Chargeback
            /\ (Row(i).kind \in DisputeFamily /\ Row(i).client_id = c /\ Row(i).tx_id = t) =>
                   (Returned(i) /\ TableAfter(i)[c] = TableBefore(i)[c])

\* A dispute of a charged-back id whose amount the available funds cover.
C8_Witness ==
    \E i \in Rows :
        /\ Row(i).kind = "dispute"
        /\ Original(i) # {}
        /\ StateBefore(i) = Chargeback
        /\ OriginalTx(i).amount # {}
        /\ available_funds(Before(i)) >= OriginalAmount(i)

----------------------------------------------------------------------------
\* Row i is a resolve or a chargeback of an id that is Undisputed.
C9_Case(i) ==
    /\ Row(i).kind \in {"resolve", "chargeback"}
    /\ find_dispute(Before(i), Row(i).tx_id) = Undisputed

\* C9: a resolve or chargeback of an Undisputed id leaves the whole account
\* unchanged, locked included, however often it is applied.
C9_UndisputedNoOp ==
    \A i \in Rows :
        C9_Case(i) =>
            \* the lookup a repetition of row i, right after it, would make
            LET again == transaction(SubSeq(ledger, 1, i), i, Row(i).client_id, Row(i).tx_id)
            IN  /\ Returned(i)
                /\ After(i) = Before(i)
                /\ ~assert_fails(After(i), again)
                /\ Resolve_execute(After(i), again) = Before(i)
                /\ ChargeBack_execute(After(i), again) = Before(i)

\* A chargeback of an id that was disputed and then resolved, on an account
\* with funds.
C9_Witness ==
    \E j \in Rows : \E i \in Rows :
        /\ j < i
        /\ DisputedCase(j, "resolve")
        /\ Row(i).kind = "chargeback"
        /\ Row(i).tx_id = Row(j).tx_id
        /\ Original(i) # {}
        /\ C9_Case(i)
        /\ available_funds(Before(i)) # 0

----------------------------------------------------------------------------
\* C10: a deposit on an unlocked account adds exactly its amount to available
\* and total and changes nothing else; on a locked account it changes nothing.
C10_Deposit ==
    \A i \in Rows :
        Row(i).kind = "deposit" =>
            LET amount == CHOOSE a \in Row(i).amount : TRUE
            IN  IF locked(Before(i))
                THEN After(i) = Before(i)
                ELSE /\ available_funds(After(i)) = available_funds(Before(i)) + amount
                     /\ total_funds(After(i)) = total_funds(Before(i)) + amount
                     /\ held_funds(After(i)) = held_funds(Before(i))
                     /\ After(i).held_funds = Before(i).held_funds
                     /\ After(i).completed_disputes = Before(i).completed_disputes
                     /\ locked(After(i)) = locked(Before(i))

\* A deposit that was applied, and a later one that found the account locked.
C10_Witness ==
    \E i \in Rows : \E k \in Rows :
        /\ i < k
        /\ Row(i).kind = "deposit" /\ Row(k).kind = "deposit"
        /\ ~locked(Before(i))
        /\ available_funds(After(i)) # available_funds(Before(i))
        /\ locked(Before(k))

----------------------------------------------------------------------------
\* The claims below are stated about the row dispatched last: every row of a
\* replay is the last one in the state its handler leaves, so a property of
\* the last row in every reachable state is a property of every row.

Last == Len(ledger)

\* C11: a withdrawal on an unlocked account whose available funds cover the
\* amount takes exactly the amount from available and total; one that
\* available does not cover (held funds do not count) or that finds the
\* account locked leaves the account as it was, and the replay goes on.
C11_Withdrawal ==
    (Last > 0 /\ Row(Last).kind = "withdrawal") =>
        LET amount == CHOOSE a \in Row(Last).amount : TRUE
            before == Before(Last)
            after == After(Last)
        IN  /\ pc = "replay"
            /\ IF ~locked(before) /\ available_funds(before) >= amount
               THEN /\ available_funds(after) = available_funds(before) - amount
                    /\ total_funds(after) = total_funds(before) - amount
                    /\ held_funds(after) = held_funds(before)
                    /\ after.held_funds = before.held_funds
                    /\ after.completed_disputes = before.completed_disputes
                    /\ locked(after) = locked(before)
               ELSE after = before

\* A withdrawal refused although held funds would have covered it, after a
\* withdrawal that was applied.
C11_Witness ==
    /\ Last > 1 /\ Row(Last).kind = "withdrawal"
    /\ ~locked(Before(Last))
    /\ \E a \in Row(Last).amount :
           /\ available_funds(Before(Last)) < a
           /\ total_funds(Before(Last)) >= a
    /\ After(Last) = Before(Last)
    /\ \E i \in 1 .. Last - 1 :
           /\ Row(i).kind = "withdrawal"
           /\ available_funds(After(i)) # available_funds(Before(i))

\* The rows before the last one that carry its transaction id, for its own
\* client and for the other clients.
OwnEarlier == {j \in 1 .. Last - 1 : /\ Row(j).tx_id = Row(Last).tx_id
                                      /\ Row(j).client_id = Row(Last).client_id}
ForeignEarlier == {j \in 1 .. Last - 1 : /\ Row(j).tx_id = Row(Last).tx_id
                                          /\ Row(j).client_id # Row(Last).client_id}

\* C13: a dispute, resolve or chargeback of client c whose transaction id is
\* carried only by earlier rows of other clients finds nothing: the account
\* of c is left as it was (created empty when it did not exist) and no other
\* account changes.
C13_LookupScopedToClient ==
    (/\ Last > 0
     /\ Row(Last).kind \in DisputeFamily
     /\ OwnEarlier = {}
     /\ ForeignEarlier # {}) =>
        /\ pc = "replay"
        /\ TableAfter(Last) = account(TableBefore(Last), Row(Last).client_id)

\* A dispute of client c that names a deposit of another client while c has
\* the funds to cover that deposit's amount, and both accounts stay put.
C13_Witness ==
    /\ Last > 0
    /\ Row(Last).kind = "dispute"
    /\ OwnEarlier = {}
    /\ \E j \in ForeignEarlier :
           /\ Row(j).kind = "deposit"
           /\ Row(j).client_id \in DOMAIN TableBefore(Last)
           /\ available_funds(TableBefore(Last)[Row(j).client_id]) > 0
           /\ \E a \in Row(j).amount :
                  /\ a > 0
                  /\ available_funds(Before(Last)) >= a
    /\ After(Last) = Before(Last)

\* Row j is a resolve that was applied.
SuccessfulResolve(j) ==
    /\ Row(j).kind = "resolve"
    /\ Original(j) # {}
    /\ StateBefore(j)[1] = "Disputed"
    /\ Returned(j)
\* The last row names, for its client, a transaction id whose dispute was
\* resolved earlier and is not open again, or was charged back earlier.
SameIdEarlier(j) ==
    /\ Row(j).client_id = Row(Last).client_id
    /\ Row(j).tx_id = Row(Last).tx_id
AlreadyResolved ==
    /\ Last > 0
    /\ Row(Last).kind \in DisputeFamily
    /\ Original(Last) # {}
    /\ StateBefore(Last) = Undisputed
    /\ \E j \in 1 .. Last - 1 : SameIdEarlier(j) /\ SuccessfulResolve(j)
AlreadyChargedBack ==
    /\ Last > 0
    /\ Row(Last).kind \in DisputeFamily
    /\ \E j \in 1 .. Last - 1 : SameIdEarlier(j) /\ SuccessfulChargeback(j)

\* C14 as stated: a dispute, resolve or chargeback that names an already
\* resolved or an already charged back transaction id leaves the account as
\* it was, and the replay goes on.
C14_SettledIdIgnored ==
    (AlreadyResolved \/ AlreadyChargedBack) =>
        /\ pc = "replay"
        /\ After(Last) = Before(Last)

\* C14, amended: a dispute, resolve or chargeback that names an already
\* charged back transaction id, and a resolve or chargeback that names an
\* already resolved one, leave the account as it was and the replay goes on;
\* a dispute that names an already resolved id is handled as a first dispute
\* is: it moves the amount from available to held when available covers it.
C14_SettledIdIgnoredUnlessRedisputed ==
    /\ AlreadyChargedBack => (pc = "replay" /\ After(Last) = Before(Last))
    /\ (AlreadyResolved /\ Row(Last).kind # "dispute") =>
           (pc = "replay" /\ After(Last) = Before(Last))
    /\ (AlreadyResolved /\ Row(Last).kind = "dispute") =>
           /\ pc = "replay"
           /\ IF OriginalTx(Last).amount # {}
                 /\ available_funds(Before(Last)) >= OriginalAmount(Last)
              THEN /\ available_funds(After(Last))
                        = available_funds(Before(Last)) - OriginalAmount(Last)
                   /\ held_funds(After(Last))
                        = held_funds(Before(Last)) + OriginalAmount(Last)
                   /\ find_dispute(After(Last), Row(Last).tx_id)
                        = Disputed(OriginalAmount(Last))
              ELSE After(Last) = Before(Last)

\* A dispute of a charged back id that the account could cover, left unapplied.
C14_Witness ==
    /\ AlreadyChargedBack
    /\ Row(Last).kind = "dispute"
    /\ Original(Last) # {}
    /\ OriginalTx(Last).amount # {}
    /\ available_funds(Before(Last)) >= OriginalAmount(Last)
    /\ After(Last) = Before(Last)

\* The last row is the first one that names its client, and its handler
\* ignores it on an account without funds.
FirstOfClient ==
    /\ Last > 0
    /\ Row(Last).client_id \notin DOMAIN TableBefore(Last)
IgnoredOnNewAccount ==
    \/ Row(Last).kind \in DisputeFamily
    \/ /\ Row(Last).kind = "withdrawal"
       /\ \E a \in Row(Last).amount : a > 0

\* C15: the account table holds exactly the client ids of the rows processed
\* so far; the first row that names a client creates its account, with no
\* funds and unlocked, also when the row is ignored; a row removes no account.
C15_AccountTable ==
    /\ DOMAIN accounts = {Row(i).client_id : i \in Rows}
    /\ \A c \in DOMAIN accounts : accounts[c].client_id = c
    /\ Last > 0 => DOMAIN TableBefore(Last) \subseteq DOMAIN accounts
    /\ (FirstOfClient /\ IgnoredOnNewAccount) =>
           LET created == accounts[Row(Last).client_id]
           IN  /\ available_funds(created) = 0
               /\ held_funds(created) = 0
               /\ total_funds(created) = 0
               /\ ~locked(created)
               /\ created.held_funds = EmptyMap
               /\ created.completed_disputes = EmptyMap

\* The account of a second client, created by a dispute that finds nothing,
\* next to an account that holds funds.
C15_Witness ==
    /\ FirstOfClient
    /\ Row(Last).kind = "dispute"
    /\ Cardinality(DOMAIN accounts) = 2
    /\ \E c \in DOMAIN accounts : available_funds(accounts[c]) > 0

\* C17: the assert! of Resolve::execute and ChargeBack::execute never fires:
\* whenever find_dispute returns Disputed(amount) for an id of an account,
\* amount <= held_funds() of that account, so no replay ends in the panic.
C17_AssertionNeverFires ==
    /\ pc # "panicked"
    /\ \A c \in DOMAIN accounts : \A t \in TxIds :
           find_dispute(accounts[c], t)[1] = "Disputed" =>
               find_dispute(accounts[c], t)[2] <= held_funds(accounts[c])

\* Row i is a dispute of an Undisputed original whose amount the available
\* funds do not cover.
UnfundedDispute(i) ==
    /\ Row(i).kind = "dispute"
    /\ Original(i) # {}
    /\ OriginalTx(i).amount # {}
    /\ StateBefore(i) = Undisputed
    /\ available_funds(Before(i)) < OriginalAmount(i)
\* The last row disputes again the id of the unfunded dispute of row i, and
\* no dispute, resolve or chargeback named that id in between.
DisputedAgainSince(i) ==
    /\ i < Last
    /\ UnfundedDispute(i)
    /\ Row(Last).kind = "dispute"
    /\ Row(Last).client_id = Row(i).client_id
    /\ Row(Last).tx_id = Row(i).tx_id
    /\ \A j \in (i + 1) .. (Last - 1) :
           ~(/\ Row(j).kind \in DisputeFamily
             /\ Row(j).client_id = Row(i).client_id
             /\ Row(j).tx_id = Row(i).tx_id)

\* C18: a dispute whose original amount exceeds the available funds is left
\* unapplied: the account is as it was and the id stays Undisputed; a later
\* dispute of the same id is applied once available covers the amount.
C18_UnfundedDisputeLeftOpen ==
    /\ (Last > 0 /\ UnfundedDispute(Last)) =>
           /\ pc = "replay"
           /\ After(Last) = Before(Last)
           /\ find_dispute(After(Last), Row(Last).tx_id) = Undisputed
    /\ \A i \in Rows :
           DisputedAgainSince(i) =>
               /\ pc = "replay"
               /\ StateBefore(Last) = Undisputed
               /\ IF available_funds(Before(Last)) >= OriginalAmount(Last)
                  THEN /\ available_funds(After(Last))
                            = available_funds(Before(Last)) - OriginalAmount(Last)
                       /\ held_funds(After(Last))
                            = held_funds(Before(Last)) + OriginalAmount(Last)
                       /\ find_dispute(After(Last), Row(Last).tx_id)
                            = Disputed(OriginalAmount(Last))
                  ELSE After(Last) = Before(Last)

\* A dispute left unapplied for lack of funds, and the same id disputed with
\* success once the funds are there.
C18_Witness ==
    \E i \in Rows :
        /\ DisputedAgainSince(i)
        /\ OriginalAmount(Last) > 0
        /\ After(i) = Before(i)
        /\ available_funds(Before(Last)) >= OriginalAmount(Last)
        /\ find_dispute(After(Last), Row(Last).tx_id) = Disputed(OriginalAmount(Last))

\* The last row is a dispute of an Undisputed original, with an amount that
\* available covers, on an account that is locked.
FundedDisputeOnLocked ==
    /\ Last > 0
    /\ Row(Last).kind = "dispute"
    /\ locked(Before(Last))
    /\ Original(Last) # {}
    /\ OriginalTx(Last).amount # {}
    /\ StateBefore(Last) = Undisputed
    /\ available_funds(Before(Last)) >= OriginalAmount(Last)

\* C19: the locked flag does not block a dispute: on a locked account a
\* dispute of an Undisputed original that available covers moves the amount
\* from available to held exactly as it does on an unlocked account.
C19_DisputeOnLockedAccount ==
    FundedDisputeOnLocked =>
        LET amount == OriginalAmount(Last)
            before == Before(Last)
            after == After(Last)
        IN  /\ pc = "replay"
            /\ available_funds(after) = available_funds(before) - amount
            /\ held_funds(after) = held_funds(before) + amount
            /\ total_funds(after) = total_funds(before)
            /\ find_dispute(after, Row(Last).tx_id) = Disputed(amount)
            /\ locked(after)
            /\ after.completed_disputes = before.completed_disputes
            /\ set_locked(after, FALSE)
                 = Dispute_execute(set_locked(before, FALSE), Original(Last))

\* A dispute that moves funds of an account locked by an earlier chargeback.
C19_Witness ==
    /\ FundedDisputeOnLocked
    /\ OriginalAmount(Last) > 0
    /\ available_funds(After(Last)) < available_funds(Before(Last))
    /\ held_funds(After(Last)) > held_funds(Before(Last))
    /\ \E j \in 1 .. Last - 1 : SuccessfulChargeback(j)

\* The snapshot, once written.
Snapshot == CHOOSE rows \in output : TRUE

Unparsable == {r \in 1 .. Len(file) : ~Parses(file[r])}

Matching == {r \in 1 .. Len(file) : /\ file[r].tx_id = Row(Last).tx_id
                                     /\ file[r].client_id = Row(Last).client_id}

RECURSIVE MapSum(_)
MapSum(map) ==
    IF DOMAIN map = {} THEN 0
    ELSE LET k == CHOOSE x \in DOMAIN map : TRUE
         IN  map[k] + MapSum(MapRemove(map, k))

\* The last row is a dispute that called add_held_funds.
DisputeApplied ==
    /\ Last > 0
    /\ Row(Last).kind = "dispute"
    /\ After(Last) # Before(Last)

\* C21: after every handler call the cached held total of every account is
\* the sum of the values in its held map, and a dispute that adds held funds
\* does so for a transaction id that is not in the held map already.
C21_HeldCacheInSync ==
    /\ \A c \in DOMAIN accounts :
           accounts[c].held_funds_cache = MapSum(accounts[c].held_funds)
    /\ DisputeApplied => Row(Last).tx_id \notin DOMAIN Before(Last).held_funds

\* A dispute adds an entry to the held map of an account from which an
\* entry was removed before.
C21_Witness ==
    /\ DisputeApplied
    /\ After(Last).held_funds # EmptyMap
    /\ After(Last).held_funds_cache # 0
    /\ \E j \in 1 .. Last - 1 : SuccessfulResolve(j) \/ SuccessfulChargeback(j)

\* C22: in every account state no transaction id is a key of the held map
\* and of the completed_disputes map at once.
C22_HeldAndCompletedDisjoint ==
    \A c \in DOMAIN accounts :
        DOMAIN accounts[c].held_funds \cap DOMAIN accounts[c].completed_disputes = {}

\* An account with one id charged back and another id under dispute, the
\* chargeback having moved its id from one map to the other.
C22_Witness ==
    \E c \in DOMAIN accounts :
        /\ accounts[c].held_funds # EmptyMap
        /\ accounts[c].completed_disputes # EmptyMap
        /\ \E j \in Rows :
               /\ SuccessfulChargeback(j)
               /\ Row(j).tx_id \in DOMAIN Before(j).held_funds
               /\ Row(j).tx_id \in DOMAIN accounts[c].completed_disputes

\* C23: the forward pass is not disturbed by the lookups: the rows dispatched
\* are the rows of the file, each once and in file order (all of them when
\* the snapshot is written), and the header line is never yielded as a record.
C23_ForwardPassUndisturbed ==
    /\ Len(ledger) <= Len(file)
    /\ \A i \in Rows : ledger[i] = file[i]
    /\ pc = "done" => ledger = file
    /\ pc = "panicked" => reader.line # 0


\* The whole execute() of handler h, run alone on acc.
Alone(h, acc) ==
    CASE handlers[h].kind = "deposit" -> Deposit_execute(acc, HandlerAmount(h))
      [] handlers[h].kind = "withdrawal" -> Withdrawal_execute(acc, HandlerAmount(h))
      [] handlers[h].kind = "dispute" -> Dispute_execute(acc, {handlers[h].tx})

BothDone == handlers # << >> /\ \A h \in Handlers : handlers[h].pc = "done"

\* C24: two handlers that run concurrently against the same account exclude
\* each other for the whole of execute: once both have finished, the account
\* is the one that running them one after the other, in one of the two
\* orders, produces.
C24_SerialOutcome ==
    BothDone =>
        accounts[1] \in {Alone(2, Alone(1, history[1][1])),
                         Alone(1, Alone(2, history[1][1]))}


----------------------------------------------------------------------------
\* The replay with an index in place of the re-scan.

\* BankTransaction::execute on `row` with the table `table`, given the
\* record the lookup returned: the table it leaves, and whether the
\* handler's assert! failed (no write is made then).
BankTransaction_execute(table, row, disputed_tx) ==
    LET with == account(table, row.client_id)
        acc == with[row.client_id]
        amount == CHOOSE a \in row.amount : TRUE
        panics == row.kind \in {"resolve", "chargeback"} /\ assert_fails(acc, disputed_tx)
        left == CASE row.kind = "deposit" -> Deposit_execute(acc, amount)
                  [] row.kind = "withdrawal" -> Withdrawal_execute(acc, amount)
                  [] row.kind = "dispute" -> Dispute_execute(acc, disputed_tx)
                  [] row.kind = "resolve" -> Resolve_execute(acc, disputed_tx)
                  [] row.kind = "chargeback" -> ChargeBack_execute(acc, disputed_tx)
    IN  [accounts |-> IF panics THEN with ELSE [with EXCEPT ![row.client_id] = left],
         panics |-> panics]

\* The key of a record in the index.
Key(row) == <<row.client_id, row.tx_id>>

\* The index after the first n rows, filled one row at a time; a key that
\* is already present keeps the record it has.
RECURSIVE tx_index(_, _)
tx_index(rows, n) ==
    IF n = 0 THEN EmptyMap
    ELSE LET seen == tx_index(rows, n - 1)
         IN  IF Key(rows[n]) \in DOMAIN seen THEN seen
             ELSE MapInsert(seen, Key(rows[n]), rows[n])

\* The record the index gives for a transaction of an account.
index_get(idx, account_id, transaction_id) ==
    IF <<account_id, transaction_id>> \in DOMAIN idx
    THEN {idx[<<account_id, transaction_id>>]}
    ELSE {}

\* The replay of the first n rows of `rows` by a forward pass that consults
\* the index: the table it leaves and whether it has aborted (on a row that
\* does not parse or on a failed assert!).
RECURSIVE replay_indexed(_, _)
replay_indexed(rows, n) ==
    IF n = 0 THEN [accounts |-> EmptyMap, panics |-> FALSE]
    ELSE LET before == replay_indexed(rows, n - 1)
         IN  IF before.panics THEN before
             ELSE IF ~Parses(rows[n]) THEN [before EXCEPT !.panics = TRUE]
             ELSE BankTransaction_execute(before.accounts, rows[n],
                      index_get(tx_index(rows, n - 1), rows[n].client_id, rows[n].tx_id))

\* C25: replacing the re-scan by an index filled during the forward pass
\* changes nothing that can be observed: the run over a ledger file ends in
\* a fatal abort exactly when the indexed replay of that file does, and
\* otherwise writes the snapshot of the accounts the indexed replay leaves.
C25_SameAsIndexedReplay ==
    LET indexed == replay_indexed(file, Len(file))
    IN  /\ pc = "panicked" => indexed.panics
        /\ pc = "done" => /\ ~indexed.panics
                          /\ output = {ordered_accounts_balance(indexed.accounts)}


----------------------------------------------------------------------------
\* The replay of a log in the order of its rows.

\* The for_each of Bank::ordered_accounts_balance_buffer over the first n
\* rows, each dispatched once and in order: the table it leaves and whether
\* it has aborted.
RECURSIVE replay(_, _)
replay(rows, n) ==
    IF n = 0 THEN [accounts |-> EmptyMap, panics |-> FALSE]
    ELSE LET before == replay(rows, n - 1)
         IN  IF before.panics THEN before
             ELSE IF ~Parses(rows[n]) THEN [before EXCEPT !.panics = TRUE]
             ELSE BankTransaction_execute(before.accounts, rows[n],
                      transaction(rows, n - 1, rows[n].client_id, rows[n].tx_id))

\* The rows of client c, in the order they have in the file.
SubLog(c) == SelectSeq(file, LAMBDA row : row.client_id = c)

\* The account of client c after the replay of its sub-log alone.
AloneAccount(c) == replay(SubLog(c), Len(SubLog(c))).accounts[c]

\* C26: a record of client c changes no account but that of c, and when
\* the replay of a ledger file has ended the account of each client is the
\* one that the replay of the client's own records alone, in the same
\* order, leaves.
C26_FrameAndSubLog ==
    /\ Last > 0 =>
           \A d \in DOMAIN TableBefore(Last) \ {Row(Last).client_id} :
               TableAfter(Last)[d] = TableBefore(Last)[d]
    /\ pc = "done" /\ Last > 0 =>
           \A c \in DOMAIN TableAfter(Last) :
               /\ ~replay(SubLog(c), Len(SubLog(c))).panics
               /\ TableAfter(Last)[c] = AloneAccount(c)


----------------------------------------------------------------------------
\* The first of the earlier rows of the client of the last row that carry
\* its transaction id.
FirstOwnEarlier == Row(CHOOSE j \in OwnEarlier : \A k \in OwnEarlier : j <= k)

Duplicated == Last > 0 /\ Row(Last).kind \in DisputeFamily /\ Cardinality(OwnEarlier) >= 2

\* C27: when several earlier rows of the client carry the transaction id a
\* dispute, resolve or chargeback refers to, the lookup returns the first of
\* them: a dispute that is applied holds the amount of that row, and a
\* dispute whose first such row has no amount holds nothing.
C27_FirstDuplicateFound ==
    Duplicated =>
        /\ Original(Last) = {FirstOwnEarlier}
        /\ Row(Last).kind = "dispute" =>
               IF After(Last) # Before(Last)
               THEN /\ FirstOwnEarlier.amount # {}
                    /\ After(Last).held_funds =
                           MapInsert(Before(Last).held_funds, Row(Last).tx_id,
                                     CHOOSE a \in FirstOwnEarlier.amount : TRUE)
               ELSE After(Last).held_funds = Before(Last).held_funds

\* A dispute is applied while two earlier rows carry its transaction id
\* with different amounts; it holds the amount of the first.
C27_Witness ==
    /\ Duplicated
    /\ DisputeApplied
    /\ \E j \in OwnEarlier : Row(j).amount # FirstOwnEarlier.amount /\ Row(j).amount # {}
    /\ After(Last).held_funds[Row(Last).tx_id] \in FirstOwnEarlier.amount


----------------------------------------------------------------------------
\* What row i adds to the total of its client: the amount of a deposit that
\* was applied, minus the amount of a withdrawal that was applied, minus
\* the amount of the transaction a chargeback charged back; nothing for a
\* row that was ignored, a dispute or a resolve.
Contribution(i) ==
    IF After(i) = Before(i) THEN 0
    ELSE CASE Row(i).kind = "deposit" -> CHOOSE a \in Row(i).amount : TRUE
           [] Row(i).kind = "withdrawal" -> 0 - (CHOOSE a \in Row(i).amount : TRUE)
           [] Row(i).kind = "chargeback" -> 0 - OriginalAmount(i)
           [] OTHER -> 0

\* The sum of the contributions of the first n rows to the total of client c.
RECURSIVE Contributions(_, _)
Contributions(c, n) ==
    IF n = 0 THEN 0
    ELSE Contributions(c, n - 1) + (IF Row(n).client_id = c THEN Contribution(n) ELSE 0)

----------------------------------------------------------------------------
\* C29: a second call of ordered_accounts_balance_buffer on the same Bank
\* over the unchanged file returns what the first returned: it starts with
\* an empty account table and a reader at the start of the file, the first
\* row it dispatches is the first row of the file, and its snapshot is the
\* snapshot of the first call.
C29_SecondCallSameSnapshot ==
    /\ Cardinality(output) <= 1
    /\ calls > 1 /\ ledger = << >> /\ pc = "replay" =>
           accounts = EmptyMap /\ offset = 0 /\ reader.buffer = << >>
    /\ calls > 1 /\ Last > 0 => TableBefore(1) = EmptyMap /\ ledger[1] = file[1]
    /\ calls > 1 /\ pc = "done" => output = {ordered_accounts_balance(replay(ledger, Last).accounts)}

\* The second call has written its snapshot of two accounts, one of them
\* with funds.
C29_Witness ==
    /\ calls = 2
    /\ pc = "done"
    /\ output # {}
    /\ Len(Snapshot) = 2
    /\ \E k \in 1 .. 2 : Snapshot[k].total # 0


----------------------------------------------------------------------------
\* The line after the buffer-load that holds line k, or the end of the file.
EndOfLoad(k) == Min(((k \div reader.capacity) + 1) * reader.capacity, Lines(file))

\* C30: the replay of a finite ledger file ends: it never dispatches more
\* rows than the file has, and when the snapshot is written every row has
\* been dispatched exactly once, in order; the lookup made for the row
\* dispatched with index i reads no further than the buffer-load that holds
\* row i.
C30_ReplayEnds ==
    /\ Len(ledger) <= Len(file)
    /\ pc = "done" => ledger = file
    /\ Last > 0 /\ Row(Last).kind \in DisputeFamily /\ pc = "replay" =>
           offset <= EndOfLoad(Last - 1)


----------------------------------------------------------------------------
\* The last row changed the account of its client.
Applied == Last > 0 /\ After(Last) # Before(Last)

\* C31: in a ledger without negative amounts the available funds of the
\* account are never negative after a row: a withdrawal or a dispute is
\* applied only when the available funds cover its amount, and a deposit,
\* a resolve or a chargeback never lowers the available funds.
C31_AvailableNeverNegative ==
    Last > 0 =>
        /\ available_funds(After(Last)) >= 0
        /\ Applied /\ Row(Last).kind = "withdrawal" =>
               available_funds(Before(Last)) >= (CHOOSE a \in Row(Last).amount : TRUE)
        /\ Applied /\ Row(Last).kind = "dispute" =>
               available_funds(Before(Last)) >= OriginalAmount(Last)
        /\ Row(Last).kind \in {"deposit", "resolve", "chargeback"} =>
               available_funds(After(Last)) >= available_funds(Before(Last))

\* A dispute of a deposit is refused because a withdrawal has taken the
\* funds it would hold: the available funds stay at zero.
C31_Witness ==
    /\ Last > 0
    /\ Row(Last).kind = "dispute"
    /\ Original(Last) # {}
    /\ OriginalTx(Last).kind = "deposit"
    /\ StateBefore(Last) = Undisputed
    /\ ~Applied
    /\ available_funds(After(Last)) = 0
    /\ \E j \in Rows : Row(j).kind = "withdrawal" /\ After(j) # Before(j)


----------------------------------------------------------------------------
\* The rows that carry transaction id t for client c, and the first of them.
Carrying(c, t) == {j \in Rows : Row(j).client_id = c /\ Row(j).tx_id = t}
FirstCarrying(c, t) == CHOOSE j \in Carrying(c, t) : \A k \in Carrying(c, t) : j <= k

\* The transaction ids of client c whose first row is a dispute, a resolve
\* or a chargeback.
Shadowed(c) ==
    {t \in TxIds : Carrying(c, t) # {} /\ Row(FirstCarrying(c, t)).kind \in DisputeFamily}

\* C32: when the first row with a client and transaction id is a dispute,
\* resolve or chargeback, every later dispute of that id is given that row,
\* which has no amount, as its original and is ignored: the id is never
\* Disputed, whatever deposit with that id follows.
C32_ShadowedIdNeverDisputed ==
    Last > 0 =>
        /\ \A c \in DOMAIN TableAfter(Last) : \A t \in Shadowed(c) :
               /\ find_dispute(TableAfter(Last)[c], t) = Undisputed
               /\ t \notin DOMAIN TableAfter(Last)[c].held_funds
        /\ /\ Row(Last).kind = "dispute"
           /\ Row(Last).tx_id \in Shadowed(Row(Last).client_id)
           /\ OwnEarlier # {}
           => /\ Original(Last) = {Row(FirstCarrying(Row(Last).client_id, Row(Last).tx_id))}
              /\ OriginalTx(Last).amount = {}
              /\ After(Last) = Before(Last)

\* A dispute is ignored although an applied deposit with its id precedes it
\* and the account has the funds: a dispute row with that id came first.
C32_Witness ==
    /\ Last > 0
    /\ Row(Last).kind = "dispute"
    /\ Row(Last).tx_id \in Shadowed(Row(Last).client_id)
    /\ \E j \in OwnEarlier : /\ Row(j).kind = "deposit"
                             /\ After(j) # Before(j)
                             /\ available_funds(Before(Last)) >= (CHOOSE a \in Row(j).amount : TRUE)
    /\ ~locked(Before(Last))
    /\ After(Last) = Before(Last)


----------------------------------------------------------------------------
\* The last row was handled on an account that was already locked.
OnLocked == Last > 0 /\ locked(Before(Last))

\* C33: in a ledger without negative amounts, a row handled on a locked
\* account never raises the total funds: a deposit or a withdrawal leaves
\* the account as it is, a dispute or a resolve keeps the total, and a
\* chargeback that is applied lowers it or keeps it; the account stays
\* locked.
C33_LockedTotalNeverGrows ==
    OnLocked =>
        /\ total_funds(After(Last)) <= total_funds(Before(Last))
        /\ locked(After(Last))
        /\ Row(Last).kind \in {"deposit", "withdrawal"} => After(Last) = Before(Last)
        /\ Row(Last).kind \in {"dispute", "resolve"} =>
               total_funds(After(Last)) = total_funds(Before(Last))
        /\ total_funds(After(Last)) # total_funds(Before(Last)) =>
               /\ SuccessfulChargeback(Last)
               /\ total_funds(After(Last)) = total_funds(Before(Last)) - OriginalAmount(Last)

\* A second chargeback is applied on an account that the first one locked,
\* and lowers its total.
C33_Witness ==
    /\ OnLocked
    /\ SuccessfulChargeback(Last)
    /\ OriginalAmount(Last) > 0
    /\ total_funds(After(Last)) < total_funds(Before(Last))
    /\ \E j \in 1 .. Last - 1 : SuccessfulChargeback(j)

====
